---- MODULE Spec2Model ----
(***************************************************************************)
(* Model of src/server.js: an express server that proxies OpenAI-style     *)
(* chat-completion requests to the NVIDIA NIM API.                         *)
(*                                                                         *)
(* JavaScript values are records [type, val]; a number is held as its JSON *)
(* literal (the program does no arithmetic on any number it handles), so   *)
(* 0.7 is Num("0.7") and the status 404 is Num("404").  A missing property *)
(* is Undefined.  Plain objects (a message, a response body, an error) are *)
(* TLA+ records with the source's property names.                          *)
(***************************************************************************)
EXTENDS Integers, Sequences, FiniteSets, TLC

\* ------------------------------------------------------------------------
\* JavaScript values and the operators the handlers apply to them
\* ------------------------------------------------------------------------
Undefined == [type |-> "undefined", val |-> ""]
Str(s)    == [type |-> "string", val |-> s]
Num(lit)  == [type |-> "number", val |-> lit]
Bool(b)   == [type |-> "boolean", val |-> b]
Arr(s)    == [type |-> "array", val |-> s]
Fn(name)  == [type |-> "function", val |-> name]
Obj(name) == [type |-> "object", val |-> name]

\* ToBoolean: undefined, "", 0 and false are falsy; objects, arrays and
\* functions are truthy.
Truthy(v) ==
    CASE v.type = "undefined" -> FALSE
      [] v.type = "string"    -> v.val # ""
      [] v.type = "number"    -> v.val # "0"
      [] v.type = "boolean"   -> v.val
      [] OTHER                -> TRUE

\* a || b
Or(a, b) == IF Truthy(a) THEN a ELSE b

\* The property key a value is converted to when it indexes an object.
ToPropertyKey(v) == IF v.type = "undefined" THEN "undefined" ELSE v.val

\* ------------------------------------------------------------------------
\* Module-level configuration
\* ------------------------------------------------------------------------
\* The own properties MODEL_MAPPING is created with.
InitialMapping ==
    ( "gpt-3.5-turbo" :> "meta/llama-3.1-8b-instruct"
   @@ "gpt-4"         :> "meta/llama-3.1-70b-instruct"
   @@ "gpt-4-turbo"   :> "nvidia/llama-3.1-nemotron-70b-instruct"
   @@ "llama-8b"      :> "meta/llama-3.1-8b-instruct"
   @@ "llama-70b"     :> "meta/llama-3.1-70b-instruct"
   @@ "deepseek"      :> "deepseek-ai/deepseek-v3_2"
   @@ "yi"            :> "01-ai/yi-large"
   @@ "nemotron"      :> "nvidia/llama-3.1-nemotron-70b-instruct"
   @@ "glm"           :> "z-ai/glm4.7"
   @@ "glm4.7"        :> "z-ai/glm4.7" )

\* MODEL_MAPPING is an object literal, so its prototype is Object.prototype:
\* a lookup of a key that is no own property continues there.
ObjectPrototype ==
    ( "constructor" :> Fn("Object")
   @@ "toString"    :> Fn("toString")
   @@ "__proto__"   :> Obj("Object.prototype") )

\* obj[key] on a plain object whose own properties are strings.
GetProperty(obj, key) ==
    IF key \in DOMAIN obj THEN Str(obj[key])
    ELSE IF key \in DOMAIN ObjectPrototype THEN ObjectPrototype[key]
    ELSE Undefined

\* The object literal a chat handler creates when thinking mode applies.
thinkingPrompt ==
    [role |-> "system",
     content |-> "Think step by step and show your reasoning process."]

ReasoningMarker == "[Reasoning enabled]\n"

\* Statuses for which the axios promise resolves (its default validateStatus).
SuccessStatuses == {"200", "201"}

\* ------------------------------------------------------------------------
\* POST /v1/chat/completions: building the upstream request
\* ------------------------------------------------------------------------
\* const mappedModel = MODEL_MAPPING[model] || model
mappedModel(mapping, model) ==
    Or(GetProperty(mapping, ToPropertyKey(model)), model)

\* ENABLE_THINKING_MODE && messages && messages.length > 0
ThinkingApplies(enabled, messages) ==
    enabled /\ Truthy(messages) /\ Len(messages.val) > 0

\* InjectedMessages putting a new system message in front of every list.
InjectedMessagesAlwaysPrepend(enabled, messages) ==
    IF ~ThinkingApplies(enabled, messages) THEN messages
    ELSE Arr(<<thinkingPrompt>> \o messages.val)

\* The local `messages` after the thinking-mode block.
InjectedMessages(enabled, messages) ==
    IF ~ThinkingApplies(enabled, messages) THEN messages
    ELSE IF messages.val[1].role # "system"
         THEN Arr(<<thinkingPrompt>> \o messages.val)
         ELSE Arr([messages.val EXCEPT
                     ![1].content = @ \o "\n" \o thinkingPrompt.content])

\* req.body after the thinking-mode block: the spread builds a new array,
\* the += writes through to the message object req.body holds.
BodyAfterInjection(enabled, body) ==
    IF ThinkingApplies(enabled, body.messages)
       /\ body.messages.val[1].role = "system"
    THEN [body EXCEPT !.messages = InjectedMessages(enabled, body.messages)]
    ELSE body

\* const nvidiaRequest = { ... }
BuildNvidiaRequest(mapping, enabled, body) ==
    [model       |-> mappedModel(mapping, body.model),
     messages    |-> InjectedMessages(enabled, body.messages),
     temperature |-> Or(body.temperature, Num("0.7")),
     top_p       |-> Or(body.top_p, Num("1")),
     max_tokens  |-> Or(body.max_tokens, Num("1024")),
     stream      |-> Or(body.stream, Bool(FALSE))]

\* ------------------------------------------------------------------------
\* The outbound call: how `await axios.get/post` settles on an upstream reply
\* ------------------------------------------------------------------------
\* A reply is [status, data]; status is Undefined when no HTTP response was
\* received (a transport failure).
Rejects(reply) ==
    reply.status = Undefined \/ reply.status.val \notin SuccessStatuses

\* The error the rejected promise carries into the catch block.
AxiosError(reply) ==
    IF reply.status = Undefined
    THEN [message |-> "socket hang up", response |-> Undefined]
    ELSE [message  |-> "Request failed with status code " \o reply.status.val,
          response |-> [status |-> reply.status, data |-> reply.data]]

\* value.name where value may be anything: only a parsed JSON object has
\* properties of its own here.
Get(value, name) ==
    IF value.type = "object" /\ name \in DOMAIN value.val
    THEN value.val[name] ELSE Undefined

\* error.response?.status
ErrorStatus(error) ==
    IF error.response = Undefined THEN Undefined ELSE error.response.status

\* error.response?.data?.detail
ErrorDetail(error) ==
    IF error.response = Undefined THEN Undefined
    ELSE Get(error.response.data, "detail")

\* ------------------------------------------------------------------------
\* What the handlers send to the client.  A response is
\* [statusCode, contentType, body, chunks, ended]; a body property that is
\* Undefined is absent from the JSON sent.
\* ------------------------------------------------------------------------
FreshResponse ==
    [statusCode |-> Num("200"), contentType |-> "", body |-> Undefined,
     chunks |-> <<>>, ended |-> FALSE]

\* res.status(status).json(body)
SendJson(status, body) ==
    [statusCode |-> status, contentType |-> "application/json", body |-> body,
     chunks |-> <<>>, ended |-> TRUE]

\* ChatCatch answering every failure with status 500.
ChatCatchAlways500(error) ==
    SendJson(Num("500"),
             [error |-> [message |-> Or(ErrorDetail(error), Str(error.message)),
                         type    |-> "nvidia_api_error",
                         code    |-> ErrorStatus(error)]])

\* catch block of the chat handler
ChatCatch(error) ==
    SendJson(Or(ErrorStatus(error), Num("500")),
             [error |-> [message |-> Or(ErrorDetail(error), Str(error.message)),
                         type    |-> "nvidia_api_error",
                         code    |-> ErrorStatus(error)]])

\* responseData.choices[0]
FirstChoice(choices) ==
    IF choices.type = "array" /\ Len(choices.val) > 0
    THEN choices.val[1] ELSE Undefined

\* !responseData || !responseData.choices || !responseData.choices[0]
InvalidResponse(responseData) ==
    \/ ~Truthy(responseData)
    \/ ~Truthy(Get(responseData, "choices"))
    \/ FirstChoice(Get(responseData, "choices")) = Undefined

InvalidResponseReply ==
    SendJson(Num("500"),
             [error |-> [message |-> Str("Invalid response from NVIDIA API"),
                         type    |-> "api_response_error",
                         code    |-> Undefined]])

\* WithReasoning applied whatever SHOW_REASONING says.
WithReasoningAlways(show, responseData) ==
    IF FirstChoice(responseData.val.choices).message # Undefined
    THEN Obj([responseData.val EXCEPT
                !.choices.val[1].message.content = ReasoningMarker \o @])
    ELSE responseData

\* The SHOW_REASONING block: prefixes the first choice's message content.
WithReasoning(show, responseData) ==
    IF show /\ FirstChoice(responseData.val.choices).message # Undefined
    THEN Obj([responseData.val EXCEPT
                !.choices.val[1].message.content = ReasoningMarker \o @])
    ELSE responseData

\* ChatJsonSuccess without the check of the response's shape.
ChatJsonSuccessUnchecked(show, responseData) ==
    SendJson(Num("200"),
             IF InvalidResponse(responseData) THEN responseData
             ELSE WithReasoning(show, responseData))

\* The non-streaming branch after the await has resolved.
ChatJsonSuccess(show, responseData) ==
    IF InvalidResponse(responseData) THEN InvalidResponseReply
    ELSE SendJson(Num("200"), WithReasoning(show, responseData))

\* ModelsCatch answering with the upstream's body in place of the envelope.
ModelsCatchForwardBody(error) ==
    SendJson(Or(ErrorStatus(error), Num("500")),
             IF error.response = Undefined THEN Undefined
             ELSE error.response.data)

\* catch block of the model-listing handler
ModelsCatch(error) ==
    SendJson(Or(ErrorStatus(error), Num("500")),
             [error |-> [message |-> Str(error.message),
                         type    |-> "nvidia_api_error",
                         code    |-> Undefined]])

\* app.use error middleware: what a request whose body express.json() cannot
\* parse is answered with.
ServerErrorReply ==
    SendJson(Num("500"),
             [error |-> [message |-> Str("Internal server error"),
                         type    |-> "server_error",
                         code    |-> Undefined]])

\* app.get('/')
HealthReply ==
    SendJson(Num("200"),
             [status |-> "ok", message |-> "NVIDIA NIM Proxy Server",
              endpoints |-> [chat |-> "/v1/chat/completions",
                             models |-> "/v1/models"]])

\* ------------------------------------------------------------------------
\* Bounds and the inputs drawn from them
\* ------------------------------------------------------------------------
MaxMessages == 2
MaxChoices  == 2
MaxChunks   == 2

Conns == {1, 2}

SeqsUpTo(S, n) == UNION {[1..k -> S] : k \in 0..n}

ModelNames ==
    {Undefined, Str("gpt-4"), Str("glm"),
     Str("mistralai/mixtral-8x7b-instruct-v0.1"), Str("constructor")}

MessagePool ==
    {[role |-> "system", content |-> "Be brief."],
     [role |-> "user", content |-> "hi"]}

MessageLists ==
    {Undefined} \cup {Arr(s) : s \in SeqsUpTo(MessagePool, MaxMessages)}

AllBodies ==
    [model       : ModelNames,
     messages    : MessageLists,
     temperature : {Undefined, Num("0"), Num("0.2")},
     top_p       : {Undefined, Num("0.9")},
     max_tokens  : {Undefined, Num("256")},
     stream      : {Undefined, Bool(TRUE), Bool(FALSE)}]

\* A few bodies for the runs that vary something else: an aliased model
\* with a leading system message, an unaliased one without, and a streamed
\* request.
FewBodies ==
    {[model |-> Str("gpt-4"),
      messages |-> Arr(<<[role |-> "system", content |-> "Be brief."],
                         [role |-> "user", content |-> "hi"]>>),
      temperature |-> Undefined, top_p |-> Undefined,
      max_tokens |-> Num("256"), stream |-> Undefined],
     [model |-> Str("mistralai/mixtral-8x7b-instruct-v0.1"),
      messages |-> Arr(<<[role |-> "user", content |-> "hi"]>>),
      temperature |-> Num("0.2"), top_p |-> Undefined,
      max_tokens |-> Undefined, stream |-> Bool(FALSE)],
     [model |-> Str("glm"),
      messages |-> Arr(<<[role |-> "system", content |-> "Be brief."],
                         [role |-> "user", content |-> "hi"]>>),
      temperature |-> Undefined, top_p |-> Num("0.9"),
      max_tokens |-> Undefined, stream |-> Bool(TRUE)]}

ChoicePool ==
    {[message |-> [role |-> "assistant", content |-> "hi"],
      finish_reason |-> "stop"],
     [message |-> [role |-> "assistant", content |-> "yo"],
      finish_reason |-> "length"],
     [message |-> Undefined, finish_reason |-> "stop"]}

ChoiceLists ==
    {Undefined} \cup {Arr(s) : s \in SeqsUpTo(ChoicePool, MaxChoices)}

Statuses == {"200", "201", "401", "429", "500"}

TransportFailure == [status |-> Undefined, data |-> Undefined]

\* A parsed JSON body of the chat endpoint of the upstream, or an empty body.
JsonDatas ==
    {Str("")} \cup
    {Obj([choices |-> c, detail |-> d, id |-> "cmpl-1"]) :
        c \in ChoiceLists, d \in {Undefined, Str("Rate limit exceeded")}}

AllJsonReplies ==
    {TransportFailure} \cup
    {[status |-> Num(s), data |-> d] : s \in Statuses, d \in JsonDatas}

FewJsonReplies ==
    {TransportFailure,
     [status |-> Num("200"),
      data |-> Obj([choices |-> Arr(<<[message |-> [role |-> "assistant",
                                                     content |-> "hi"],
                                        finish_reason |-> "stop"]>>),
                    detail |-> Undefined, id |-> "cmpl-1"])],
     [status |-> Num("200"),
      data |-> Obj([choices |-> Undefined, detail |-> Undefined,
                    id |-> "cmpl-1"])],
     [status |-> Num("429"),
      data |-> Obj([choices |-> Undefined,
                    detail |-> Str("Rate limit exceeded"), id |-> "cmpl-1"])]}

\* With responseType 'stream' the data of a reply is the stream itself.
StreamBody == [type |-> "stream", val |-> ""]

StreamReplies ==
    {TransportFailure} \cup
    {[status |-> Num(s), data |-> StreamBody] : s \in Statuses}

ChunkPool == {"data: {\"delta\":\"a\"}\n\n", "data: [DONE]\n\n"}

ModelListings ==
    {Obj([object |-> "list", data |-> <<"meta/llama-3.1-8b-instruct">>]),
     Obj([object |-> "list", data |-> <<>>])}

AllModelsReplies ==
    {TransportFailure} \cup
    {[status |-> Num(s), data |-> d] : s \in Statuses, d \in ModelListings}

FewModelsReplies ==
    {TransportFailure,
     [status |-> Num("200"),
      data |-> Obj([object |-> "list", data |-> <<>>])]}

\* process.env values of the two feature flags
EnvValues == {Undefined, Str("true"), Str("false")}

\* ------------------------------------------------------------------------
\* State
\* ------------------------------------------------------------------------
VARIABLES
    MODEL_MAPPING,         \* own properties of the module-level alias object
    SHOW_REASONING,        \* module-level flag
    ENABLE_THINKING_MODE,  \* module-level flag
    pc,                    \* per connection: where its handler stands
    request,               \* per connection: the request as received
    reqBody,               \* per connection: req.body, as the handler holds it
    nvidiaRequest,         \* per connection: the request object sent upstream
    calls,                 \* per connection: outbound calls made for it
    upstream,              \* per connection: the reply of the upstream
    responseStream,        \* per connection: response.data of a streamed reply
    res                    \* per connection: what was sent to the client

vars == <<MODEL_MAPPING, SHOW_REASONING, ENABLE_THINKING_MODE, pc, request,
          reqBody, nvidiaRequest, calls, upstream, responseStream, res>>

config == <<MODEL_MAPPING, SHOW_REASONING, ENABLE_THINKING_MODE>>

NoStream == [received |-> <<>>, buffer |-> <<>>, state |-> "none"]

Init ==
    /\ MODEL_MAPPING = InitialMapping
    /\ \E v \in EnvValues : SHOW_REASONING = (v = Str("true"))
    /\ \E v \in EnvValues : ENABLE_THINKING_MODE = (v = Str("true"))
    /\ pc = [r \in Conns |-> "idle"]
    /\ request = [r \in Conns |-> Undefined]
    /\ reqBody = [r \in Conns |-> Undefined]
    /\ nvidiaRequest = [r \in Conns |-> Undefined]
    /\ calls = [r \in Conns |-> 0]
    /\ upstream = [r \in Conns |-> Undefined]
    /\ responseStream = [r \in Conns |-> NoStream]
    /\ res = [r \in Conns |-> FreshResponse]

\* ------------------------------------------------------------------------
\* Handlers.  A handler runs without interruption up to its await and again
\* from the settled await to its end; connections interleave at the awaits.
\* ------------------------------------------------------------------------
\* ChatBegin remembering in MODEL_MAPPING the name it resolved.
ChatBeginMemoising(r, bodies) ==
    /\ pc[r] = "idle"
    /\ \E body \in bodies :
         /\ request' = [request EXCEPT ![r] = [route |-> "chat", body |-> body]]
         /\ reqBody' = [reqBody EXCEPT
                          ![r] = BodyAfterInjection(ENABLE_THINKING_MODE, body)]
         /\ nvidiaRequest' =
              [nvidiaRequest EXCEPT
                 ![r] = BuildNvidiaRequest(MODEL_MAPPING, ENABLE_THINKING_MODE,
                                           body)]
         /\ MODEL_MAPPING' =
              (ToPropertyKey(body.model)
                 :> ToPropertyKey(mappedModel(MODEL_MAPPING, body.model)))
              @@ MODEL_MAPPING
         /\ pc' = [pc EXCEPT ![r] = IF Truthy(body.stream)
                                    THEN "stream_await" ELSE "json_await"]
    /\ calls' = [calls EXCEPT ![r] = @ + 1]
    /\ UNCHANGED <<SHOW_REASONING, ENABLE_THINKING_MODE, upstream,
                   responseStream, res>>

\* app.post('/v1/chat/completions') from its entry to the await of axios.post
ChatBegin(r, bodies) ==
    /\ pc[r] = "idle"
    /\ \E body \in bodies :
         /\ request' = [request EXCEPT ![r] = [route |-> "chat", body |-> body]]
         /\ reqBody' = [reqBody EXCEPT
                          ![r] = BodyAfterInjection(ENABLE_THINKING_MODE, body)]
         /\ nvidiaRequest' =
              [nvidiaRequest EXCEPT
                 ![r] = BuildNvidiaRequest(MODEL_MAPPING, ENABLE_THINKING_MODE,
                                           body)]
         /\ pc' = [pc EXCEPT ![r] = IF Truthy(body.stream)
                                    THEN "stream_await" ELSE "json_await"]
    /\ calls' = [calls EXCEPT ![r] = @ + 1]
    /\ UNCHANGED <<config, upstream, responseStream, res>>

\* The non-streaming branch from the settled await to the end of the handler.
ChatJsonSettle(r, replies) ==
    /\ pc[r] = "json_await"
    /\ \E reply \in replies :
         /\ upstream' = [upstream EXCEPT ![r] = reply]
         /\ res' = [res EXCEPT
                      ![r] = IF Rejects(reply)
                             THEN ChatCatch(AxiosError(reply))
                             ELSE ChatJsonSuccess(SHOW_REASONING, reply.data)]
    /\ pc' = [pc EXCEPT ![r] = "done"]
    /\ UNCHANGED <<config, request, reqBody, nvidiaRequest, calls,
                   responseStream>>

\* The streaming branch from the settled await to response.data.pipe(res).
ChatStreamSettle(r) ==
    /\ pc[r] = "stream_await"
    /\ \E reply \in StreamReplies :
         /\ upstream' = [upstream EXCEPT ![r] = reply]
         /\ IF Rejects(reply)
            THEN /\ res' = [res EXCEPT ![r] = ChatCatch(AxiosError(reply))]
                 /\ pc' = [pc EXCEPT ![r] = "done"]
                 /\ UNCHANGED responseStream
            ELSE /\ res' = [res EXCEPT
                              ![r] = [FreshResponse EXCEPT
                                        !.contentType = "text/event-stream"]]
                 /\ responseStream' =
                      [responseStream EXCEPT
                         ![r] = [received |-> <<>>, buffer |-> <<>>,
                                 state |-> "open"]]
                 /\ pc' = [pc EXCEPT ![r] = "streaming"]
    /\ UNCHANGED <<config, request, reqBody, nvidiaRequest, calls>>

\* A chunk of the upstream body arrives in response.data.
UpstreamChunk(r) ==
    /\ pc[r] = "streaming"
    /\ responseStream[r].state = "open"
    /\ Len(responseStream[r].received) < MaxChunks
    /\ \E c \in ChunkPool :
         responseStream' =
            [responseStream EXCEPT ![r].received = Append(@, c),
                                   ![r].buffer = Append(@, c)]
    /\ UNCHANGED <<config, pc, request, reqBody, nvidiaRequest, calls,
                   upstream, res>>

\* PipeData putting the reasoning marker before each chunk it writes.
PipeDataMarked(r) ==
    /\ pc[r] = "streaming"
    /\ responseStream[r].buffer # <<>>
    /\ res' = [res EXCEPT
                 ![r].chunks =
                    Append(@, ReasoningMarker \o Head(responseStream[r].buffer))]
    /\ responseStream' = [responseStream EXCEPT ![r].buffer = Tail(@)]
    /\ UNCHANGED <<config, pc, request, reqBody, nvidiaRequest, calls,
                   upstream>>

\* pipe: a 'data' event of response.data is written to res.
PipeData(r) ==
    /\ pc[r] = "streaming"
    /\ responseStream[r].buffer # <<>>
    /\ res' = [res EXCEPT
                 ![r].chunks = Append(@, Head(responseStream[r].buffer))]
    /\ responseStream' = [responseStream EXCEPT ![r].buffer = Tail(@)]
    /\ UNCHANGED <<config, pc, request, reqBody, nvidiaRequest, calls,
                   upstream>>

\* The upstream finishes its body.
UpstreamEnd(r) ==
    /\ pc[r] = "streaming"
    /\ responseStream[r].state = "open"
    /\ responseStream' = [responseStream EXCEPT ![r].state = "ended"]
    /\ UNCHANGED <<config, pc, request, reqBody, nvidiaRequest, calls,
                   upstream, res>>

\* pipe: the 'end' event of response.data, emitted once its buffer is
\* drained, ends res.
PipeEnd(r) ==
    /\ pc[r] = "streaming"
    /\ responseStream[r].state = "ended"
    /\ responseStream[r].buffer = <<>>
    /\ res' = [res EXCEPT ![r].ended = TRUE]
    /\ pc' = [pc EXCEPT ![r] = "done"]
    /\ UNCHANGED <<config, request, reqBody, nvidiaRequest, calls, upstream,
                   responseStream>>

\* The upstream connection fails while its body is relayed.  response.data
\* is destroyed: what it buffered is dropped and it emits no 'end'.  pipe
\* ends res on 'end' only, the handler has returned and nothing listens for
\* the failure, so res is left as it is.
UpstreamFail(r) ==
    /\ pc[r] = "streaming"
    /\ responseStream[r].state = "open"
    /\ responseStream' = [responseStream EXCEPT ![r].state = "failed",
                                                ![r].buffer = <<>>]
    /\ pc' = [pc EXCEPT ![r] = "stalled"]
    /\ UNCHANGED <<config, request, reqBody, nvidiaRequest, calls, upstream,
                   res>>

\* app.get('/v1/models') from its entry to the await of axios.get
ModelsBegin(r) ==
    /\ pc[r] = "idle"
    /\ request' = [request EXCEPT
                     ![r] = [route |-> "models", body |-> Undefined]]
    /\ calls' = [calls EXCEPT ![r] = @ + 1]
    /\ pc' = [pc EXCEPT ![r] = "models_await"]
    /\ UNCHANGED <<config, reqBody, nvidiaRequest, upstream, responseStream,
                   res>>

\* app.get('/v1/models') from the settled await to its end
ModelsSettle(r, replies) ==
    /\ pc[r] = "models_await"
    /\ \E reply \in replies :
         /\ upstream' = [upstream EXCEPT ![r] = reply]
         /\ res' = [res EXCEPT
                      ![r] = IF Rejects(reply)
                             THEN ModelsCatch(AxiosError(reply))
                             ELSE SendJson(Num("200"), reply.data)]
    /\ pc' = [pc EXCEPT ![r] = "done"]
    /\ UNCHANGED <<config, request, reqBody, nvidiaRequest, calls,
                   responseStream>>

\* app.get('/')
Health(r) ==
    /\ pc[r] = "idle"
    /\ request' = [request EXCEPT
                     ![r] = [route |-> "health", body |-> Undefined]]
    /\ res' = [res EXCEPT ![r] = HealthReply]
    /\ pc' = [pc EXCEPT ![r] = "done"]
    /\ UNCHANGED <<config, reqBody, nvidiaRequest, calls, upstream,
                   responseStream>>

\* A request whose body express.json() rejects: no route handler runs, the
\* error middleware answers.
MalformedBody(r) ==
    /\ pc[r] = "idle"
    /\ request' = [request EXCEPT
                     ![r] = [route |-> "malformed", body |-> Undefined]]
    /\ res' = [res EXCEPT ![r] = ServerErrorReply]
    /\ pc' = [pc EXCEPT ![r] = "done"]
    /\ UNCHANGED <<config, reqBody, nvidiaRequest, calls, upstream,
                   responseStream>>

\* The exchange on a connection is over and the server takes the next
\* request on it: every per-request object is new.
NextRequest(r) ==
    /\ pc[r] = "done"
    /\ pc' = [pc EXCEPT ![r] = "idle"]
    /\ request' = [request EXCEPT ![r] = Undefined]
    /\ reqBody' = [reqBody EXCEPT ![r] = Undefined]
    /\ nvidiaRequest' = [nvidiaRequest EXCEPT ![r] = Undefined]
    /\ calls' = [calls EXCEPT ![r] = 0]
    /\ upstream' = [upstream EXCEPT ![r] = Undefined]
    /\ responseStream' = [responseStream EXCEPT ![r] = NoStream]
    /\ res' = [res EXCEPT ![r] = FreshResponse]
    /\ UNCHANGED config

\* ------------------------------------------------------------------------
\* Specifications
\* ------------------------------------------------------------------------
\* Two connections served concurrently.
Next ==
    \E r \in Conns :
        \/ ChatBegin(r, FewBodies)
        \/ ChatJsonSettle(r, FewJsonReplies)
        \/ ChatStreamSettle(r)
        \/ UpstreamChunk(r)
        \/ PipeData(r)
        \/ UpstreamEnd(r)
        \/ PipeEnd(r)
        \/ UpstreamFail(r)
        \/ ModelsBegin(r)
        \/ ModelsSettle(r, FewModelsReplies)
        \/ Health(r)
        \/ MalformedBody(r)
        \/ NextRequest(r)

Spec == Init /\ [][Next]_vars

\* One connection, every request body of the bounded input space.
NextRequests ==
    \/ ChatBegin(1, AllBodies)
    \/ ChatJsonSettle(1, FewJsonReplies)
    \/ ChatStreamSettle(1)
    \/ UpstreamChunk(1)
    \/ PipeData(1)
    \/ UpstreamEnd(1)
    \/ PipeEnd(1)
    \/ UpstreamFail(1)
    \/ NextRequest(1)

SpecRequests == Init /\ [][NextRequests]_vars

\* One connection, every upstream reply of the bounded input space.
NextReplies ==
    \/ ChatBegin(1, FewBodies)
    \/ ChatJsonSettle(1, AllJsonReplies)
    \/ ChatStreamSettle(1)
    \/ UpstreamChunk(1)
    \/ PipeData(1)
    \/ UpstreamEnd(1)
    \/ PipeEnd(1)
    \/ UpstreamFail(1)
    \/ ModelsBegin(1)
    \/ ModelsSettle(1, AllModelsReplies)
    \/ NextRequest(1)

SpecReplies == Init /\ [][NextReplies]_vars

\* ------------------------------------------------------------------------
\* Properties
\* ------------------------------------------------------------------------
IsChat(r) == request[r] # Undefined /\ request[r].route = "chat"

IsModels(r) == request[r] # Undefined /\ request[r].route = "models"

\* The chat exchange of r is over and was not streamed.
JsonChatDone(r) ==
    IsChat(r) /\ pc[r] = "done" /\ ~Truthy(request[r].body.stream)

\* The upstream answered r with an HTTP response of a 2xx status.
UpstreamSucceeded(r) ==
    /\ upstream[r] # Undefined
    /\ upstream[r].status # Undefined
    /\ upstream[r].status.val \in SuccessStatuses

\* The upstream answered r with an HTTP response of a non-2xx status.
UpstreamRefused(r) ==
    /\ upstream[r] # Undefined
    /\ upstream[r].status # Undefined
    /\ upstream[r].status.val \notin SuccessStatuses

\* The body the upstream returned has no choices list or an empty one.
ChoicesMissingOrEmpty(data) ==
    Get(data, "choices") \in {Undefined, Arr(<<>>)}

\* The body the upstream returned has a choices list with an element.
ChoicesNonEmpty(data) ==
    /\ Get(data, "choices").type = "array"
    /\ Len(Get(data, "choices").val) > 0

IsInvalidResponseEnvelope(response) ==
    /\ response.statusCode = Num("500")
    /\ response.ended
    /\ DOMAIN response.body = {"error"}
    /\ response.body.error.type = "api_response_error"
    /\ response.body.error.message.type = "string"

\* C1 as stated: whenever the upstream of a chat request returns a body whose
\* choices list is missing or empty, whatever its status, the client is
\* answered with status 500 and error type api_response_error.
C1_AnyStatusInvalidIs500 ==
    \A r \in Conns :
        ( /\ JsonChatDone(r)
          /\ upstream[r].status # Undefined
          /\ ChoicesMissingOrEmpty(upstream[r].data) )
        => IsInvalidResponseEnvelope(res[r])

\* C1 amended: whenever the upstream of a non-streaming chat request answers
\* with a 2xx status and a body whose choices list is missing or empty, the
\* client is answered with status 500 and error type api_response_error.
C1_SuccessInvalidIs500 ==
    \A r \in Conns :
        ( /\ JsonChatDone(r)
          /\ UpstreamSucceeded(r)
          /\ ChoicesMissingOrEmpty(upstream[r].data) )
        => IsInvalidResponseEnvelope(res[r])

\* A 201 reply with an empty choices list was answered with the 500 envelope.
C1_Witness ==
    \E r \in Conns :
        /\ JsonChatDone(r)
        /\ UpstreamSucceeded(r)
        /\ upstream[r].status = Num("201")
        /\ Get(upstream[r].data, "choices") = Arr(<<>>)
        /\ IsInvalidResponseEnvelope(res[r])

\* C2: a chat request, streamed or not, whose upstream answers with a non-2xx
\* status s is answered with status s and a JSON body
\* {error: {message, type, code}} whose code is s.
C2_UpstreamStatusPropagated ==
    \A r \in Conns :
        (IsChat(r) /\ pc[r] = "done" /\ UpstreamRefused(r))
        => /\ res[r].statusCode = upstream[r].status
           /\ res[r].ended
           /\ res[r].contentType = "application/json"
           /\ DOMAIN res[r].body = {"error"}
           /\ res[r].body.error.code = upstream[r].status
           /\ res[r].body.error.type = "nvidia_api_error"
           /\ res[r].body.error.message.type = "string"
           /\ res[r].body.error.message.val # ""

\* A streamed request refused with 429 was answered with 429 and code 429.
C2_Witness ==
    \E r \in Conns :
        /\ IsChat(r) /\ pc[r] = "done" /\ UpstreamRefused(r)
        /\ Truthy(request[r].body.stream)
        /\ upstream[r].status = Num("429")
        /\ res[r].statusCode = Num("429")
        /\ res[r].body.error.code = Num("429")

\* Everything of the returned body but the first choice's message content is
\* what the upstream sent.
RestUnchanged(returned, sent) ==
    /\ DOMAIN returned = DOMAIN sent
    /\ returned.id = sent.id
    /\ returned.detail = sent.detail
    /\ Len(returned.choices.val) = Len(sent.choices.val)
    /\ \A i \in 2..Len(sent.choices.val) :
          returned.choices.val[i] = sent.choices.val[i]
    /\ returned.choices.val[1].finish_reason = sent.choices.val[1].finish_reason

\* The first choice of the returned body carries the upstream's message with
\* the marker put before its content.
FirstContentMarked(returned, sent) ==
    /\ sent.choices.val[1].message # Undefined
    /\ returned.choices.val[1].message # Undefined
    /\ returned.choices.val[1].message.role = sent.choices.val[1].message.role
    /\ returned.choices.val[1].message.content =
          "[Reasoning enabled]\n" \o sent.choices.val[1].message.content

\* The upstream answered the non-streaming chat request of r with a 2xx
\* status and a non-empty choices list.
ValidJsonReply(r) ==
    /\ JsonChatDone(r)
    /\ UpstreamSucceeded(r)
    /\ ChoicesNonEmpty(upstream[r].data)

\* C7 as stated: for a non-streaming chat request whose upstream response has
\* a non-empty choices list, with reasoning-display enabled the returned
\* first choice's message content is the marker followed by the upstream's
\* content and the rest of the body is unchanged; with it disabled the
\* returned body is the upstream body.
C7_EveryFirstChoiceMarked ==
    \A r \in Conns :
        ValidJsonReply(r)
        => /\ res[r].body.type = "object"
           /\ IF SHOW_REASONING
              THEN /\ FirstContentMarked(res[r].body.val, upstream[r].data.val)
                   /\ RestUnchanged(res[r].body.val, upstream[r].data.val)
              ELSE res[r].body = upstream[r].data

\* C7 amended: with reasoning-display enabled and a first choice that carries
\* a message, the returned first choice's message content is the marker
\* followed by the upstream's content and the rest of the body is unchanged;
\* with reasoning-display disabled, or a first choice without a message, the
\* returned body is the upstream body.
C7_FirstMessageMarked ==
    \A r \in Conns :
        ValidJsonReply(r)
        => /\ res[r].body.type = "object"
           /\ res[r].ended
           /\ IF /\ SHOW_REASONING
                 /\ upstream[r].data.val.choices.val[1].message # Undefined
              THEN /\ FirstContentMarked(res[r].body.val, upstream[r].data.val)
                   /\ RestUnchanged(res[r].body.val, upstream[r].data.val)
              ELSE res[r].body = upstream[r].data

\* With reasoning-display enabled, a reply of two choices whose first says
\* "hi" was returned with the first content marked and the second untouched.
C7_Witness ==
    \E r \in Conns :
        /\ ValidJsonReply(r)
        /\ SHOW_REASONING
        /\ Len(upstream[r].data.val.choices.val) = 2
        /\ upstream[r].data.val.choices.val[1].message # Undefined
        /\ upstream[r].data.val.choices.val[1].message.content = "hi"
        /\ res[r].body.val.choices.val[1].message.content =
              "[Reasoning enabled]\nhi"
        /\ res[r].body.val.choices.val[2] = upstream[r].data.val.choices.val[2]

\* The model listing of r was answered by the upstream with an HTTP response.
ModelsAnswered(r) ==
    IsModels(r) /\ pc[r] = "done" /\ upstream[r].status # Undefined

\* C9 as stated: the response to GET /v1/models has the status and the body
\* of the upstream's model-listing response, for every upstream status.
C9_ModelsPassthroughAnyStatus ==
    \A r \in Conns :
        ModelsAnswered(r)
        => /\ res[r].statusCode = upstream[r].status
           /\ res[r].body = upstream[r].data

\* C9 amended: when the upstream answers the model listing with a 2xx
\* status, the response has the upstream's body and status 200; when it
\* answers with a non-2xx status s, the response has status s and the body
\* {error: {message, type: nvidia_api_error}} in place of the upstream's.
C9_ModelsPassthroughOnSuccess ==
    \A r \in Conns :
        ModelsAnswered(r)
        => /\ res[r].ended
           /\ IF UpstreamSucceeded(r)
              THEN /\ res[r].statusCode = Num("200")
                   /\ res[r].body = upstream[r].data
              ELSE /\ res[r].statusCode = upstream[r].status
                   /\ DOMAIN res[r].body = {"error"}
                   /\ res[r].body.error.type = "nvidia_api_error"
                   /\ res[r].body.error.message.type = "string"
                   /\ res[r].body.error.code = Undefined

\* A listing refused with 401 was answered 401 with the envelope in place
\* of the upstream's body.
C9_Witness ==
    \E r \in Conns :
        /\ ModelsAnswered(r)
        /\ upstream[r].status = Num("401")
        /\ res[r].statusCode = Num("401")
        /\ res[r].body.error.type = "nvidia_api_error"
        /\ res[r].body # upstream[r].data

\* The chat handler of r has built and sent its upstream request.
ChatSent(r) == IsChat(r) /\ pc[r] # "idle"

\* C3: the model field of the outbound request is the alias table's value
\* for a name that is a key of the table, and the name itself otherwise.
C3_ModelLookupTotal ==
    \A r \in Conns :
        (ChatSent(r) /\ request[r].body.model.type = "string")
        => nvidiaRequest[r].model =
             IF request[r].body.model.val \in DOMAIN InitialMapping
             THEN Str(InitialMapping[request[r].body.model.val])
             ELSE request[r].body.model

\* What C4 says of a list that begins with a system message.
LeadingSystemExtended(out, in) ==
    /\ Len(out) = Len(in)
    /\ out[1].role = "system"
    /\ out[1].content =
          in[1].content \o "\n"
          \o "Think step by step and show your reasoning process."
    /\ \A i \in 2..Len(in) : out[i] = in[i]

\* What C4 says of a list that does not begin with a system message.
InstructionPrepended(out, in) ==
    /\ Len(out) = Len(in) + 1
    /\ out[1] = [role |-> "system",
                 content |->
                   "Think step by step and show your reasoning process."]
    /\ \A i \in 1..Len(in) : out[i + 1] = in[i]

\* C4 as stated: with prompt-injection enabled, every message list that does
\* not begin with a system message goes out with the instruction as a new
\* leading system message, and every list that begins with one goes out with
\* that message's content extended by a newline and the instruction.
C4_InjectionEveryList ==
    \A r \in Conns :
        ( /\ ChatSent(r)
          /\ ENABLE_THINKING_MODE
          /\ request[r].body.messages.type = "array" )
        => /\ nvidiaRequest[r].messages.type = "array"
           /\ IF /\ request[r].body.messages.val # <<>>
                 /\ request[r].body.messages.val[1].role = "system"
              THEN LeadingSystemExtended(nvidiaRequest[r].messages.val,
                                         request[r].body.messages.val)
              ELSE InstructionPrepended(nvidiaRequest[r].messages.val,
                                        request[r].body.messages.val)

\* C4 amended: the same of every message list that is not empty; an empty
\* list goes out empty.
C4_InjectionNonEmptyList ==
    \A r \in Conns :
        ( /\ ChatSent(r)
          /\ ENABLE_THINKING_MODE
          /\ request[r].body.messages.type = "array" )
        => /\ nvidiaRequest[r].messages.type = "array"
           /\ IF request[r].body.messages.val = <<>>
              THEN nvidiaRequest[r].messages.val = <<>>
              ELSE IF request[r].body.messages.val[1].role = "system"
              THEN LeadingSystemExtended(nvidiaRequest[r].messages.val,
                                         request[r].body.messages.val)
              ELSE InstructionPrepended(nvidiaRequest[r].messages.val,
                                        request[r].body.messages.val)

\* With prompt-injection enabled, a list of a system and a user message went
\* out with two messages, the first one extended.
C4_Witness ==
    \E r \in Conns :
        /\ ChatSent(r)
        /\ ENABLE_THINKING_MODE
        /\ request[r].body.messages.type = "array"
        /\ Len(request[r].body.messages.val) = 2
        /\ request[r].body.messages.val[1].role = "system"
        /\ request[r].body.messages.val[2].role = "user"
        /\ Len(nvidiaRequest[r].messages.val) = 2
        /\ nvidiaRequest[r].messages.val[1].content # 
              request[r].body.messages.val[1].content

\* The value C5 says an optional field goes out with.
SuppliedOrDefault(supplied, default) ==
    IF supplied # Undefined THEN supplied ELSE default

\* C5: each of temperature, top_p, max_tokens and stream goes out with the
\* value the client supplied, 0 and false included, and with its default
\* (0.7, 1, 1024, false) when the client supplied none; none goes out absent.
C5_SuppliedValuesKept ==
    \A r \in Conns :
        ChatSent(r)
        => /\ nvidiaRequest[r].temperature =
                SuppliedOrDefault(request[r].body.temperature, Num("0.7"))
           /\ nvidiaRequest[r].top_p =
                SuppliedOrDefault(request[r].body.top_p, Num("1"))
           /\ nvidiaRequest[r].max_tokens =
                SuppliedOrDefault(request[r].body.max_tokens, Num("1024"))
           /\ nvidiaRequest[r].stream =
                SuppliedOrDefault(request[r].body.stream, Bool(FALSE))

IsPrefix(a, b) == Len(a) <= Len(b) /\ SubSeq(b, 1, Len(a)) = a

\* The upstream call of the streamed chat request of r succeeded: its body
\* is being, or has been, relayed.
Relaying(r) == IsChat(r) /\ responseStream[r].state # "none"

\* C6: for a streamed chat request whose upstream call succeeds, what has
\* been written to the client is at every moment a prefix of what has been
\* received from the upstream, nothing received is dropped while the upstream
\* is up, no JSON body or marker is sent, and the response is ended only once
\* the upstream has ended and everything it sent has been written.
C6_StreamRelayedVerbatim ==
    \A r \in Conns :
        Relaying(r)
        => /\ IsPrefix(res[r].chunks, responseStream[r].received)
           /\ responseStream[r].state \in {"open", "ended"}
                => res[r].chunks \o responseStream[r].buffer
                     = responseStream[r].received
           /\ res[r].ended
                => /\ responseStream[r].state = "ended"
                   /\ res[r].chunks = responseStream[r].received
           /\ pc[r] = "done" => res[r].ended
           /\ res[r].body = Undefined
           /\ res[r].contentType = "text/event-stream"

\* A stream of two different chunks was relayed in full and ended.
C6_Witness ==
    \E r \in Conns :
        /\ Relaying(r)
        /\ pc[r] = "done"
        /\ Len(responseStream[r].received) = 2
        /\ responseStream[r].received[1] # responseStream[r].received[2]
        /\ res[r].chunks = responseStream[r].received

\* The chat request of r met one of the failures: the upstream refused it or
\* could not be reached, its JSON reply had no usable choices list, or its
\* connection failed while its body was relayed.
ChatFailed(r) ==
    /\ IsChat(r)
    /\ upstream[r] # Undefined
    /\ \/ Rejects(upstream[r])
       \/ ~Truthy(request[r].body.stream) /\ InvalidResponse(upstream[r].data)
       \/ responseStream[r].state = "failed"

IsErrorEnvelope(response) ==
    /\ response.ended
    /\ response.contentType = "application/json"
    /\ DOMAIN response.body = {"error"}
    /\ response.body.error.message.type = "string"
    /\ response.body.error.type \in
         {"nvidia_api_error", "api_response_error", "server_error"}

\* C8: every failure of a chat request, a failure of the upstream connection
\* after the relay of a stream has started included, is answered to its
\* caller with a JSON envelope {error: {message, type, code?}} after a single
\* upstream call.
C8_EveryFailureSurfaced ==
    \A r \in Conns :
        ChatFailed(r)
        => /\ pc[r] = "done"
           /\ IsErrorEnvelope(res[r])
           /\ calls[r] = 1

\* What the chat handler of r answers a settled upstream call with.
ChatAnswer(r) ==
    IF Rejects(upstream[r]) THEN ChatCatch(AxiosError(upstream[r]))
    ELSE ChatJsonSuccess(SHOW_REASONING, upstream[r].data)

\* C10: whatever the interleaving of two chat handlers, the alias table is
\* never written, and the upstream request and the client response of each
\* are determined by its own body, the configuration and its own upstream
\* reply: two requests with the same body send the same upstream request.
C10_HandlersIndependent ==
    /\ MODEL_MAPPING = InitialMapping
    /\ \A r \in Conns :
          ChatSent(r)
          => /\ nvidiaRequest[r] =
                  BuildNvidiaRequest(InitialMapping, ENABLE_THINKING_MODE,
                                     request[r].body)
             /\ (pc[r] = "done" /\ ~Truthy(request[r].body.stream))
                  => res[r] = ChatAnswer(r)
             /\ (pc[r] = "done" /\ Truthy(request[r].body.stream)
                               /\ Rejects(upstream[r]))
                  => res[r] = ChatCatch(AxiosError(upstream[r]))
             /\ Relaying(r)
                  => IsPrefix(res[r].chunks, responseStream[r].received)
    /\ \A r1, r2 \in Conns :
          (ChatSent(r1) /\ ChatSent(r2)
             /\ request[r1].body = request[r2].body)
          => nvidiaRequest[r1] = nvidiaRequest[r2]

\* With prompt-injection enabled, two chat requests that both begin with a
\* system message are in flight at once, one awaiting its JSON reply and one
\* relaying a stream.
C10_Witness ==
    /\ ENABLE_THINKING_MODE
    /\ IsChat(1) /\ IsChat(2)
    /\ pc[1] = "json_await" /\ pc[2] = "streaming"
    /\ request[1].body.messages.val[1].role = "system"
    /\ request[2].body.messages.val[1].role = "system"
    /\ request[1].body # request[2].body

====
